---- MODULE Spec2Model ----
(***************************************************************************)
(* Focus Session Helper (src/extension.js): the session timer              *)
(* (FocusSessionManager) and the day-keyed statistics (StatsManager).      *)
(*                                                                         *)
(* Time is in milliseconds.  The host delivers events one at a time        *)
(* (commands, interval callbacks, completions of globalState.update), so   *)
(* every handler is one atomic action.  Date.now() is the variable clock,  *)
(* which never goes backwards; the local calendar day is the variable      *)
(* today.                                                                  *)
(***************************************************************************)
EXTENDS Integers, FiniteSets, Sequences, TLC

\* const TICK_INTERVAL_MS = 1000
TICK_INTERVAL_MS == 1000

\* ------------------------------------------------------------- bounds
\* Date.now() when the manager is constructed.
StartClock == 7000
\* The clock is not advanced beyond StartClock + MaxElapsed.
MaxElapsed == 125000
\* Calendar days 0..MaxDay.
MaxDay == 1
\* Interval handles the host can hand out.
MaxTimers == 2
\* Largest whole number of minutes offered to startNewSession.
MaxMinutes == 2
\* Statistics store alone: no bucket is filled beyond MaxBucketMs, and at most
\* MaxPending writes are in flight.
MaxBucketMs == 8000
MaxPending == 2
\* Duration formatting alone: the arguments run up to MaxFormatSeconds seconds.
MaxFormatSeconds == 126

\* Amounts by which the clock advances between two events.
ClockSteps == {20 * TICK_INTERVAL_MS, 30 * TICK_INTERVAL_MS}
\* Milliseconds that may pass between the Date.now() of _onTick and the
\* Date.now() of _finishSession.
FinishDrift == {0, 1}

Days == 0..MaxDay
TimerIds == 1..MaxTimers
\* this._timer = null
NullTimer == 0

\* The values offered as `minutes`: finite numbers and the non-finite ones.
Finite(n) == [kind |-> "finite", val |-> n]
NotANumber == [kind |-> "NaN", val |-> 0]
PlusInfinity == [kind |-> "Infinity", val |-> 0]
MinusInfinity == [kind |-> "-Infinity", val |-> 0]
MinutesInputs ==
  {Finite(n) : n \in (0 - 1)..MaxMinutes} \cup {NotANumber, PlusInfinity, MinusInfinity}

\* The values offered as `deltaMs` to addFocusedMilliseconds.
DeltaInputs ==
  {Finite(0 - TICK_INTERVAL_MS), Finite(0), Finite(TICK_INTERVAL_MS),
   Finite(2 * TICK_INTERVAL_MS), NotANumber, PlusInfinity, MinusInfinity}

\* Math.max(0, n)
Max0(n) == IF n < 0 THEN 0 ELSE n

\* Number.isFinite(x)
IsFinite(x) == x.kind = "finite"

\* function minutesToMilliseconds(minutes)
minutesToMilliseconds(minutes) ==
  IF ~IsFinite(minutes) THEN 0 ELSE minutes.val * 60 * 1000

\* formatDuration with Math.ceil in place of the first Math.floor.
formatDuration_RoundsUp(ms) ==
  LET ms0 == IF ms < 0 THEN 0 ELSE ms
      totalSeconds == (ms0 + 999) \div 1000
      minutes == totalSeconds \div 60
      seconds == totalSeconds % 60
  IN  IF minutes <= 0 /\ seconds <= 0
        THEN [form |-> "0 sec", minutes |-> 0, seconds |-> 0]
      ELSE IF minutes <= 0
        THEN [form |-> "S sec", minutes |-> 0, seconds |-> seconds]
      ELSE IF seconds <= 0
        THEN [form |-> "M min", minutes |-> minutes, seconds |-> 0]
      ELSE [form |-> "M min S sec", minutes |-> minutes, seconds |-> seconds]

\* function formatDuration(ms): the rendered text as its form and numbers.
formatDuration(ms) ==
  LET ms0 == IF ms < 0 THEN 0 ELSE ms
      totalSeconds == ms0 \div 1000
      minutes == totalSeconds \div 60
      seconds == totalSeconds % 60
  IN  IF minutes <= 0 /\ seconds <= 0
        THEN [form |-> "0 sec", minutes |-> 0, seconds |-> 0]
      ELSE IF minutes <= 0
        THEN [form |-> "S sec", minutes |-> 0, seconds |-> seconds]
      ELSE IF seconds <= 0
        THEN [form |-> "M min", minutes |-> minutes, seconds |-> 0]
      ELSE [form |-> "M min S sec", minutes |-> minutes, seconds |-> seconds]

\* ------------------------------------------------------------- state
VARIABLES
  clock,          \* Date.now()
  today,          \* the local calendar day getTodayKey() reads
  armed,          \* host: the interval handles that are armed
  timer,          \* this._timer (NullTimer = null)
  remainingMs,    \* this._remainingMs
  running,        \* this._running
  lastTickTime,   \* this._lastTickTime
  statusBarItem,  \* this._statusBarItem: text, visible, disposed
  stats,          \* StatsManager._stats: day -> milliseconds (absent = no key)
  statsKind,      \* StatsManager._stats: "object", or "array" when an array was loaded
  persisted,      \* host: the durable copy of the statistics
  pendingWrites,  \* host: globalState.update calls not yet completed
  lastMessage,    \* what the last handler showed or logged ("none" if nothing)
  lastOp,         \* history: the branch the last handler took
  resumeMark,     \* history: Date.now() of the resume no handler has followed, or -1
  requestedMs,    \* history: duration of the last accepted startNewSession
  pauseMark       \* history: remainingMs at the pause still in effect, or -1

envVars == <<clock, today>>
timerVars == <<armed, timer, remainingMs, running, lastTickTime>>
statsVars == <<stats, statsKind, persisted, pendingWrites>>
historyVars == <<lastOp, resumeMark, requestedMs, pauseMark>>
vars == <<clock, today, armed, timer, remainingMs, running, lastTickTime,
          statusBarItem, stats, statsKind, persisted, pendingWrites, lastMessage,
          lastOp, resumeMark, requestedMs, pauseMark>>

\* The program's state as one value, for the handlers below.
World ==
  [clock |-> clock, today |-> today, armed |-> armed, timer |-> timer,
   remainingMs |-> remainingMs, running |-> running,
   lastTickTime |-> lastTickTime, statusBarItem |-> statusBarItem,
   stats |-> stats, statsKind |-> statsKind, pendingWrites |-> pendingWrites,
   message |-> lastMessage]

\* The mapping with no key.
EmptyStats == [d \in {} |-> 0]

\* A value of the globalState slot STORAGE_KEY_STATS: its JavaScript type, its
\* truthiness and its date-keyed properties (an array's elements are not
\* date keys).
Payload(type, truthy, entries) == [type |-> type, truthy |-> truthy, entries |-> entries]
Undefined == Payload("undefined", FALSE, EmptyStats)
EmptyObject == Payload("object", TRUE, EmptyStats)
\* Milliseconds found in a bucket stored by an earlier run.
StoredMs == 5 * TICK_INTERVAL_MS
RawPayloads ==
  {Undefined, Payload("null", FALSE, EmptyStats),
   Payload("number", FALSE, EmptyStats), Payload("number", TRUE, EmptyStats),
   Payload("string", FALSE, EmptyStats), Payload("string", TRUE, EmptyStats),
   Payload("array", TRUE, EmptyStats), EmptyObject}
    \cup {Payload("object", TRUE, [d \in {day} |-> StoredMs]) : day \in Days}

\* typeof raw
TypeOf(raw) == IF raw.type \in {"null", "array"} THEN "object" ELSE raw.type

\* StatsManager._loadStats
loadStats(raw) ==
  IF ~raw.truthy \/ TypeOf(raw) # "object" THEN EmptyObject ELSE raw

NoDuration == [form |-> "none", minutes |-> 0, seconds |-> 0]
BlankText == [kind |-> "blank", duration |-> NoDuration]
NotStartedText == [kind |-> "notStarted", duration |-> NoDuration]
FinishedText == [kind |-> "finished", duration |-> NoDuration]

\* function getTodayKey()
getTodayKey(w) == w.today

\* this._stats[key] || 0
BucketOf(s, key) == IF key \in DOMAIN s THEN s[key] ELSE 0

\* StatsManager.getTodayMilliseconds
getTodayMilliseconds(w) == BucketOf(w.stats, getTodayKey(w))

\* FocusSessionManager._updateStatusBar
updateStatusBar(w) ==
  IF w.remainingMs <= 0 /\ ~w.running
    THEN [w EXCEPT !.statusBarItem.text = NotStartedText]
    ELSE [w EXCEPT !.statusBarItem.text =
            [kind |-> IF w.running THEN "running" ELSE "paused",
             duration |-> formatDuration(w.remainingMs)]]

\* _stopTimerInternal without clearInterval: the handle is dropped but stays
\* armed.
stopTimerInternal_LeaksInterval(w, resetRemaining) ==
  LET w2 == [w EXCEPT !.timer = NullTimer, !.running = FALSE,
                      !.remainingMs = IF resetRemaining THEN 0 ELSE @]
  IN  updateStatusBar(w2)

\* FocusSessionManager._stopTimerInternal
stopTimerInternal(w, resetRemaining) ==
  LET w1 == IF w.timer # NullTimer
              THEN [w EXCEPT !.armed = @ \ {w.timer}, !.timer = NullTimer]
              ELSE w
      w2 == [w1 EXCEPT !.running = FALSE,
                       !.remainingMs = IF resetRemaining THEN 0 ELSE @]
  IN  updateStatusBar(w2)

\* setInterval: the host hands out a handle that is not armed.
FreshTimer(w) == CHOOSE i \in TimerIds \ w.armed : \A j \in TimerIds \ w.armed : i <= j

\* addFocusedMilliseconds storing deltaMs instead of prev + deltaMs.
addFocusedMilliseconds_Overwrites(w, deltaMs) ==
  IF ~IsFinite(deltaMs) \/ deltaMs.val <= 0
    THEN w
    ELSE LET key == getTodayKey(w)
             next == [d \in DOMAIN w.stats \cup {key} |->
                        IF d = key THEN deltaMs.val ELSE w.stats[d]]
         IN  [w EXCEPT !.stats = next,
                       !.pendingWrites = Append(@, Payload(w.statsKind, TRUE, next))]

\* addFocusedMilliseconds without the `deltaMs <= 0` half of its guard.
addFocusedMilliseconds_AcceptsNonPositive(w, deltaMs) ==
  IF ~IsFinite(deltaMs)
    THEN w
    ELSE LET key == getTodayKey(w)
             prev == BucketOf(w.stats, key)
             next == [d \in DOMAIN w.stats \cup {key} |->
                        IF d = key THEN prev + deltaMs.val ELSE w.stats[d]]
         IN  [w EXCEPT !.stats = next,
                       !.pendingWrites = Append(@, Payload(w.statsKind, TRUE, next))]

\* StatsManager.addFocusedMilliseconds, with _saveStats: the mapping is
\* updated and then handed to globalState.update.
addFocusedMilliseconds(w, deltaMs) ==
  IF ~IsFinite(deltaMs) \/ deltaMs.val <= 0
    THEN w
    ELSE LET key == getTodayKey(w)
             prev == BucketOf(w.stats, key)
             next == [d \in DOMAIN w.stats \cup {key} |->
                        IF d = key THEN prev + deltaMs.val ELSE w.stats[d]]
         IN  [w EXCEPT !.stats = next,
                       !.pendingWrites = Append(@, Payload(w.statsKind, TRUE, next))]

\* _finishSession without the call of _stopTimerInternal.
finishSession_KeepsTimer(w, drift) ==
  LET now == w.clock + drift
      last == w.lastTickTime
      spentMs == Max0(now - last + TICK_INTERVAL_MS)
      w1 == [w EXCEPT !.clock = now, !.running = FALSE]
      w3 == [w1 EXCEPT !.statusBarItem.text = FinishedText]
  IN  addFocusedMilliseconds(w3, Finite(spentMs))

\* FocusSessionManager._finishSession; drift is the time between the tick's
\* Date.now() and this one.
finishSession(w, drift) ==
  LET now == w.clock + drift
      last == w.lastTickTime
      spentMs == Max0(now - last + TICK_INTERVAL_MS)
      w1 == [w EXCEPT !.clock = now, !.running = FALSE]
      w2 == stopTimerInternal(w1, FALSE)
      w3 == [w2 EXCEPT !.statusBarItem.text = FinishedText]
  IN  addFocusedMilliseconds(w3, Finite(spentMs))

\* _onTick without `this._remainingMs -= delta`.
onTick_KeepsRemaining(w, drift) ==
  IF ~w.running
    THEN w
    ELSE LET now == w.clock
             w1 == [w EXCEPT !.lastTickTime = now]
         IN  IF w1.remainingMs <= 0
               THEN finishSession(updateStatusBar([w1 EXCEPT !.remainingMs = 0]), drift)
               ELSE updateStatusBar(w1)

\* _onTick without the `if (!this._running) return` guard.
onTick_NoGuard(w, drift) ==
  LET now == w.clock
      delta == now - w.lastTickTime
      w1 == [w EXCEPT !.lastTickTime = now, !.remainingMs = @ - delta]
  IN  IF w1.remainingMs <= 0
        THEN finishSession(updateStatusBar([w1 EXCEPT !.remainingMs = 0]), drift)
        ELSE updateStatusBar(w1)

\* _onTick without `this._remainingMs = 0` before finishing.
onTick_NoClamp(w, drift) ==
  IF ~w.running
    THEN w
    ELSE LET now == w.clock
             delta == now - w.lastTickTime
             w1 == [w EXCEPT !.lastTickTime = now, !.remainingMs = @ - delta]
         IN  IF w1.remainingMs <= 0
               THEN finishSession(updateStatusBar(w1), drift)
               ELSE updateStatusBar(w1)

\* FocusSessionManager._onTick
onTick(w, drift) ==
  IF ~w.running
    THEN w
    ELSE LET now == w.clock
             delta == now - w.lastTickTime
             w1 == [w EXCEPT !.lastTickTime = now, !.remainingMs = @ - delta]
         IN  IF w1.remainingMs <= 0
               THEN finishSession(updateStatusBar([w1 EXCEPT !.remainingMs = 0]), drift)
               ELSE updateStatusBar(w1)

\* startNewSession without `this._lastTickTime = Date.now()`.
startNewSession_KeepsLastTick(w, minutes) ==
  LET ms == minutesToMilliseconds(minutes)
  IN  IF ms <= 0
        THEN [w EXCEPT !.message = "warnDuration"]
        ELSE LET w1 == stopTimerInternal(w, FALSE)
                 w2 == [w1 EXCEPT !.remainingMs = ms, !.running = TRUE]
                 w3 == [w2 EXCEPT !.statusBarItem.visible = ~w2.statusBarItem.disposed]
                 w4 == updateStatusBar(w3)
                 id == FreshTimer(w4)
             IN  [w4 EXCEPT !.timer = id, !.armed = @ \cup {id}]

\* startNewSession without the call of _stopTimerInternal: the old interval
\* stays armed.
startNewSession_KeepsOldInterval(w, minutes) ==
  LET ms == minutesToMilliseconds(minutes)
  IN  IF ms <= 0
        THEN [w EXCEPT !.message = "warnDuration"]
        ELSE LET w2 == [w EXCEPT !.remainingMs = ms, !.running = TRUE,
                                 !.lastTickTime = w.clock]
                 w3 == [w2 EXCEPT !.statusBarItem.visible = ~w2.statusBarItem.disposed]
                 w4 == updateStatusBar(w3)
                 id == FreshTimer(w4)
             IN  [w4 EXCEPT !.timer = id, !.armed = @ \cup {id}]

\* startNewSession stopping the current session before it validates.
startNewSession_StopsFirst(w, minutes) ==
  LET ms == minutesToMilliseconds(minutes)
      w1 == stopTimerInternal(w, FALSE)
  IN  IF ms <= 0
        THEN [w1 EXCEPT !.message = "warnDuration"]
        ELSE LET w2 == [w1 EXCEPT !.remainingMs = ms, !.running = TRUE,
                                  !.lastTickTime = w.clock]
                 w3 == [w2 EXCEPT !.statusBarItem.visible = ~w2.statusBarItem.disposed]
                 w4 == updateStatusBar(w3)
                 id == FreshTimer(w4)
             IN  [w4 EXCEPT !.timer = id, !.armed = @ \cup {id}]

\* FocusSessionManager.startNewSession
startNewSession(w, minutes) ==
  LET ms == minutesToMilliseconds(minutes)
  IN  IF ms <= 0
        THEN [w EXCEPT !.message = "warnDuration"]
        ELSE LET w1 == stopTimerInternal(w, FALSE)
                 w2 == [w1 EXCEPT !.remainingMs = ms, !.running = TRUE,
                                  !.lastTickTime = w.clock]
                 w3 == [w2 EXCEPT !.statusBarItem.visible = ~w2.statusBarItem.disposed]
                 w4 == updateStatusBar(w3)
                 id == FreshTimer(w4)
             IN  [w4 EXCEPT !.timer = id, !.armed = @ \cup {id}]

\* togglePauseOrResume charging the time spent paused when it resumes.
togglePauseOrResume_ChargesPause(w) ==
  IF w.remainingMs <= 0 /\ ~w.running
    THEN [w EXCEPT !.message = "infoNotStarted"]
  ELSE IF w.running
    THEN updateStatusBar([w EXCEPT !.running = FALSE])
  ELSE updateStatusBar([w EXCEPT !.running = TRUE,
                                 !.remainingMs = @ - (w.clock - w.lastTickTime),
                                 !.lastTickTime = w.clock])

\* togglePauseOrResume without its early return for a session not started.
togglePauseOrResume_ResumesIdle(w) ==
  IF w.running
    THEN updateStatusBar([w EXCEPT !.running = FALSE])
    ELSE updateStatusBar([w EXCEPT !.running = TRUE, !.lastTickTime = w.clock])

\* togglePauseOrResume without `this._lastTickTime = Date.now()` on resume.
togglePauseOrResume_KeepsLastTick(w) ==
  IF w.remainingMs <= 0 /\ ~w.running
    THEN [w EXCEPT !.message = "infoNotStarted"]
  ELSE IF w.running
    THEN updateStatusBar([w EXCEPT !.running = FALSE])
  ELSE updateStatusBar([w EXCEPT !.running = TRUE])

\* FocusSessionManager.togglePauseOrResume
togglePauseOrResume(w) ==
  IF w.remainingMs <= 0 /\ ~w.running
    THEN [w EXCEPT !.message = "infoNotStarted"]
  ELSE IF w.running
    THEN updateStatusBar([w EXCEPT !.running = FALSE])
  ELSE updateStatusBar([w EXCEPT !.running = TRUE, !.lastTickTime = w.clock])

\* stopSession crediting the interrupted session as _finishSession does.
stopSession_CreditsPartial(w, showMessage) ==
  LET spentMs == Max0(w.clock - w.lastTickTime + TICK_INTERVAL_MS)
      w1 == addFocusedMilliseconds(stopTimerInternal(w, TRUE), Finite(spentMs))
  IN  IF showMessage THEN [w1 EXCEPT !.message = "infoStopped"] ELSE w1

\* FocusSessionManager.stopSession
stopSession(w, showMessage) ==
  LET w1 == stopTimerInternal(w, TRUE)
  IN  IF showMessage THEN [w1 EXCEPT !.message = "infoStopped"] ELSE w1

\* FocusSessionManager.dispose
dispose(w) ==
  LET w1 == stopTimerInternal(w, FALSE)
  IN  [w1 EXCEPT !.statusBarItem.disposed = TRUE, !.statusBarItem.visible = FALSE]

\* ------------------------------------------------------------- actions
\* The handler's result becomes the next state.
Becomes(w) ==
  \E v \in {w} :
    /\ clock' = v.clock
    /\ today' = v.today
    /\ armed' = v.armed
    /\ timer' = v.timer
    /\ remainingMs' = v.remainingMs
    /\ running' = v.running
    /\ lastTickTime' = v.lastTickTime
    /\ statusBarItem' = v.statusBarItem
    /\ stats' = v.stats
    /\ pendingWrites' = v.pendingWrites
    /\ lastMessage' = v.message
    /\ statsKind' = v.statsKind
    /\ persisted' = persisted

\* The state a handler starts from: nothing shown yet.
Entry == [World EXCEPT !.message = "none"]

\* new FocusSessionManager(context), with new StatsManager(globalState), when
\* the globalState slot holds raw.
Constructed(raw) ==
  /\ clock = StartClock
  /\ today = 0
  /\ armed = {}
  /\ timer = NullTimer
  /\ remainingMs = 0
  /\ running = FALSE
  /\ lastTickTime = 0
  /\ statusBarItem = [text |-> BlankText, visible |-> FALSE, disposed |-> FALSE]
  /\ persisted = raw
  /\ stats = loadStats(persisted).entries
  /\ statsKind = loadStats(persisted).type
  /\ pendingWrites = <<>>
  /\ lastMessage = "none"
  /\ lastOp = "init"
  /\ resumeMark = 0 - 1
  /\ requestedMs = 0
  /\ pauseMark = 0 - 1

\* Activation on a fresh installation: nothing is stored yet.
Init == Constructed(Undefined)

\* Time passes.
Advance(d) ==
  /\ clock + d <= StartClock + MaxElapsed
  /\ clock' = clock + d
  /\ UNCHANGED <<today, timerVars, statusBarItem, statsVars, lastMessage, historyVars>>

\* Midnight passes.
Midnight ==
  /\ today < MaxDay
  /\ today' = today + 1
  /\ UNCHANGED <<clock, timerVars, statusBarItem, statsVars, lastMessage, historyVars>>

\* The command layer calls startNewSession(minutes).
StartNewSession(minutes) ==
  /\ TimerIds \ armed # {}
  /\ Becomes(startNewSession(Entry, minutes))
  /\ lastOp' = IF minutesToMilliseconds(minutes) <= 0 THEN "startRejected"
               ELSE IF running \/ remainingMs > 0 THEN "startOver" ELSE "start"
  /\ resumeMark' = 0 - 1
  /\ requestedMs' = IF minutesToMilliseconds(minutes) <= 0
                      THEN requestedMs ELSE minutesToMilliseconds(minutes)
  /\ pauseMark' = 0 - 1

\* The host fires the interval callback of an armed handle.
Tick(id, drift) ==
  /\ id \in armed
  /\ clock + drift <= StartClock + MaxElapsed
  /\ LET w == onTick(Entry, drift)
     IN  /\ Becomes(w)
         /\ lastOp' = IF ~running THEN "tickIgnored"
                      ELSE IF w.remainingMs = 0 THEN "finish" ELSE "tick"
  /\ resumeMark' = 0 - 1
  /\ requestedMs' = requestedMs
  /\ pauseMark' = IF running THEN 0 - 1 ELSE pauseMark

\* The command layer calls togglePauseOrResume().
TogglePauseOrResume ==
  /\ Becomes(togglePauseOrResume(Entry))
  /\ lastOp' = IF remainingMs <= 0 /\ ~running THEN "toggleIdle"
               ELSE IF running THEN "pause" ELSE "resume"
  /\ resumeMark' = IF remainingMs > 0 /\ ~running THEN clock ELSE 0 - 1
  /\ requestedMs' = requestedMs
  /\ pauseMark' = IF running THEN remainingMs ELSE 0 - 1

\* The command layer calls stopSession(showMessage).
StopSession(showMessage) ==
  /\ Becomes(stopSession(Entry, showMessage))
  /\ lastOp' = "stop"
  /\ resumeMark' = 0 - 1
  /\ requestedMs' = requestedMs
  /\ pauseMark' = 0 - 1

\* deactivate() or the disposal of context.subscriptions calls dispose().
Dispose ==
  /\ Becomes(dispose(Entry))
  /\ lastOp' = "dispose"
  /\ resumeMark' = 0 - 1
  /\ requestedMs' = requestedMs
  /\ pauseMark' = 0 - 1

\* A globalState.update completes: .then shows the notification.
WriteSucceeds ==
  /\ pendingWrites # <<>>
  /\ persisted' = Head(pendingWrites)
  /\ pendingWrites' = Tail(pendingWrites)
  /\ lastMessage' = "infoFinished"
  /\ UNCHANGED <<envVars, timerVars, statusBarItem, stats, statsKind, historyVars>>

\* A rejected write that puts the mapping back to the durable copy.
WriteFails_RollsBack ==
  /\ pendingWrites # <<>>
  /\ pendingWrites' = Tail(pendingWrites)
  /\ stats' = persisted.entries
  /\ lastMessage' = "logSaveFailed"
  /\ UNCHANGED <<envVars, timerVars, statusBarItem, statsKind, persisted, historyVars>>

\* A globalState.update is rejected: .catch logs it.
WriteFails ==
  /\ pendingWrites # <<>>
  /\ pendingWrites' = Tail(pendingWrites)
  /\ lastMessage' = "logSaveFailed"
  /\ UNCHANGED <<envVars, timerVars, statusBarItem, stats, statsKind, persisted, historyVars>>

Next ==
  \/ \E d \in ClockSteps : Advance(d)
  \/ Midnight
  \/ \E m \in MinutesInputs : StartNewSession(m)
  \/ \E id \in TimerIds, drift \in FinishDrift : Tick(id, drift)
  \/ TogglePauseOrResume
  \/ \E b \in BOOLEAN : StopSession(b)
  \/ Dispose
  \/ WriteSucceeds
  \/ WriteFails

Spec == Init /\ [][Next]_vars

\* ------------------------------------------------ the statistics store alone
\* Activation with any value in the globalState slot.
StatsInit == \E raw \in RawPayloads : Constructed(raw)

\* A caller invokes addFocusedMilliseconds(deltaMs).
AddFocusedMilliseconds(deltaMs) ==
  /\ Len(pendingWrites) < MaxPending
  /\ BucketOf(stats, today) + Max0(deltaMs.val) <= MaxBucketMs
  /\ Becomes(addFocusedMilliseconds(Entry, deltaMs))
  /\ lastOp' = IF ~IsFinite(deltaMs) \/ deltaMs.val <= 0 THEN "addIgnored" ELSE "add"
  /\ UNCHANGED <<resumeMark, requestedMs, pauseMark>>

StatsNext ==
  \/ \E deltaMs \in DeltaInputs : AddFocusedMilliseconds(deltaMs)
  \/ Midnight
  \/ WriteSucceeds
  \/ WriteFails

StatsSpec == StatsInit /\ [][StatsNext]_vars

\* Duration formatting alone.  The argument ms of a call formatDuration(ms) is
\* held in remainingMs and the returned text is put on the status bar item.
FormatInputs == {250 * k : k \in (0 - 8)..(4 * MaxFormatSeconds)}

FormatInit ==
  /\ clock = StartClock
  /\ today = 0
  /\ armed = {}
  /\ timer = NullTimer
  /\ remainingMs \in FormatInputs
  /\ running = FALSE
  /\ lastTickTime = 0
  /\ statusBarItem = [text |-> BlankText, visible |-> FALSE, disposed |-> FALSE]
  /\ persisted = Undefined
  /\ stats = EmptyStats
  /\ statsKind = "object"
  /\ pendingWrites = <<>>
  /\ lastMessage = "none"
  /\ lastOp = "init"
  /\ resumeMark = 0 - 1
  /\ requestedMs = 0
  /\ pauseMark = 0 - 1

\* The call formatDuration(ms) returns.
FormatDuration ==
  /\ lastOp = "init"
  /\ statusBarItem' = [statusBarItem EXCEPT
                         !.text = [kind |-> "formatted",
                                   duration |-> formatDuration(remainingMs)]]
  /\ lastOp' = "format"
  /\ UNCHANGED <<envVars, timerVars, statsVars, lastMessage, resumeMark,
                 requestedMs, pauseMark>>

FormatNext == FormatDuration

FormatSpec == FormatInit /\ [][FormatNext]_vars

\* The user stops issuing commands: the command layer calls the manager only
\* while the clock is at most LastCommandAt, and a session is started only if
\* the modelled stretch of time is long enough for it to run out.
LastCommandAt == StartClock + 20 * TICK_INTERVAL_MS

LiveStartNewSession(minutes) ==
  /\ clock <= LastCommandAt
  /\ clock + minutesToMilliseconds(minutes) + 30 * TICK_INTERVAL_MS
       <= StartClock + MaxElapsed
  /\ StartNewSession(minutes)

LiveTogglePauseOrResume ==
  /\ clock <= LastCommandAt
  /\ TogglePauseOrResume

LiveStopSession(showMessage) ==
  /\ clock <= LastCommandAt
  /\ StopSession(showMessage)

LiveDispose ==
  /\ clock <= LastCommandAt
  /\ Dispose

LiveNext ==
  \/ \E d \in ClockSteps : Advance(d)
  \/ Midnight
  \/ \E m \in MinutesInputs : LiveStartNewSession(m)
  \/ \E id \in TimerIds, drift \in FinishDrift : Tick(id, drift)
  \/ LiveTogglePauseOrResume
  \/ \E b \in BOOLEAN : LiveStopSession(b)
  \/ LiveDispose
  \/ WriteSucceeds
  \/ WriteFails

\* setInterval keeps delivering the callback of an armed handle, and Date.now()
\* keeps advancing.
LiveSpec ==
  /\ Init
  /\ [][LiveNext]_vars
  /\ WF_vars(\E id \in TimerIds, drift \in FinishDrift : Tick(id, drift))
  /\ WF_vars(\E d \in ClockSteps : Advance(d))

\* ------------------------------------------------------------- claims
Idle == ~running /\ remainingMs = 0
Paused == ~running /\ remainingMs > 0
\* A finite number of minutes greater than zero.
ValidMinutes(m) == m.kind = "finite" /\ m.val > 0
TickStep == \E id \in TimerIds, drift \in FinishDrift : Tick(id, drift)
Distance(a, b) == IF a < b THEN b - a ELSE a - b

\* C1: on natural completion (a tick of a Running session brings remainingMs
\* to 0) today's bucket grows by the requested duration, minutes x 60000, to
\* within one tick interval.
C1_CreditWithinOneTick ==
  [][(running /\ lastOp' = "finish") =>
       Distance(BucketOf(stats', today') - BucketOf(stats, today), requestedMs)
         <= TICK_INTERVAL_MS]_vars

\* C2: from every state, startNewSession(minutes) with finite minutes > 0 ends
\* with remainingMs = minutes x 60000, Running, lastTickTime = now and the
\* periodic tick armed.
C2_StartYieldsRunning ==
  [][\A m \in MinutesInputs :
       (ValidMinutes(m) /\ StartNewSession(m)) =>
         /\ remainingMs' = m.val * 60000
         /\ running'
         /\ lastTickTime' = clock'
         /\ timer' # NullTimer
         /\ timer' \in armed']_vars

\* C2 witness: a session started after an earlier one ran to completion.
C2_StartedAfterFinish ==
  /\ lastOp = "start"
  /\ running
  /\ remainingMs = requestedMs
  /\ BucketOf(stats, today) > 0

\* C3: startNewSession(minutes) with minutes non-finite or <= 0 shows the
\* warning and changes nothing: not the status, remainingMs, lastTickTime,
\* the armed callback, the display or the statistics.
C3_RejectedStartChangesNothing ==
  [][\A m \in MinutesInputs :
       (~ValidMinutes(m) /\ StartNewSession(m)) =>
         /\ UNCHANGED <<envVars, timerVars, statusBarItem, statsVars>>
         /\ lastMessage' = "warnDuration"]_vars

\* C3 witness: a start was rejected while a session is Running.
C3_RejectedWhileRunning ==
  /\ lastOp = "startRejected"
  /\ running
  /\ timer \in armed
  /\ remainingMs > 0

\* C4: the statistics change only in the tick of a Running session that
\* brings remainingMs to 0; stop, start, pause/resume, dispose and every
\* other tick leave every day's bucket as it was.
C4_StatsChangeOnlyOnCompletion ==
  [][stats' # stats =>
       /\ TickStep
       /\ running
       /\ remainingMs - (clock - lastTickTime) <= 0
       /\ remainingMs' = 0]_vars

\* C4 witness: a session that had run for a while was stopped, and no
\* bucket holds anything.
C4_StoppedSessionCreditsNothing ==
  /\ lastOp = "stop"
  /\ requestedMs > 0
  /\ lastTickTime > StartClock
  /\ \A d \in Days : BucketOf(stats, d) = 0

\* C5: from every state stopSession yields Idle, remainingMs = 0 and no
\* periodic callback, and a second stopSession changes nothing more.
C5_StopIsIdempotent ==
  \A b1 \in BOOLEAN, b2 \in BOOLEAN :
    LET once == stopSession(Entry, b1)
    IN  /\ ~once.running
        /\ once.remainingMs = 0
        /\ once.timer = NullTimer
        /\ once.armed = {}
        /\ stopSession([once EXCEPT !.message = "none"], b2)
             = stopSession(Entry, b2)

\* C5 witness: a started session has been stopped.
C5_StoppedAfterStart ==
  /\ lastOp = "stop"
  /\ requestedMs > 0
  /\ Idle
  /\ timer = NullTimer
  /\ statusBarItem.text = NotStartedText

\* C6: pause then resume, with only ticks delivered in between, returns to
\* Running with remainingMs as it was at the pause.
C6_PauseResumeRoundTrip ==
  [][(pauseMark >= 0 /\ TogglePauseOrResume) =>
       (running' /\ remainingMs' = pauseMark)]_vars

\* C6 witness: a session resumed in mid-countdown.
C6_ResumedMidSession ==
  /\ lastOp = "resume"
  /\ running
  /\ remainingMs > 0
  /\ remainingMs < requestedMs

\* C7: remainingMs is never negative, and no tick increases it.
C7_TickMonotone ==
  /\ [](remainingMs >= 0)
  /\ [][TickStep => remainingMs' <= remainingMs]_vars

\* C7 witness: a tick has reduced remainingMs without finishing the session.
C7_TickedMidSession ==
  /\ lastOp = "tick"
  /\ running
  /\ remainingMs > 0
  /\ remainingMs < requestedMs

\* C8: a tick while the status is not Running changes nothing.
C8_TickWhileNotRunningIsNoOp ==
  ~running => \A drift \in FinishDrift : onTick(World, drift) = World

\* C8 witness: a tick was delivered to a Paused session.
C8_TickDeliveredWhilePaused ==
  /\ lastOp = "tickIgnored"
  /\ Paused
  /\ timer \in armed

\* C9: Running implies that the periodic tick callback is armed.
C9_RunningImpliesArmed ==
  running => (timer # NullTimer /\ timer \in armed)

\* C10 as stated: the first tick after a resume reduces remainingMs by
\* exactly (tick time - resume time).
C10_FirstTickChargesExactly ==
  [][(resumeMark >= 0 /\ TickStep) =>
       remainingMs' = remainingMs - (clock - resumeMark)]_vars

\* C10 as amended: resuming sets lastTickTime to the resume instant, and the
\* first tick after a resume reduces remainingMs by (tick time - resume
\* time), stopping at 0.
C10_FirstTickChargesSinceResume ==
  [][/\ (Paused /\ TogglePauseOrResume) => lastTickTime' = clock
     /\ (resumeMark >= 0 /\ TickStep) =>
          remainingMs' = Max0(remainingMs - (clock - resumeMark))]_vars

\* C10 witness: a session was resumed and time has passed since.
C10_ResumedAndWaiting ==
  /\ lastOp = "resume"
  /\ running
  /\ lastTickTime = resumeMark
  /\ clock > resumeMark
  /\ remainingMs > 0

\* A finite deltaMs greater than zero.
ValidDelta(deltaMs) == deltaMs.kind = "finite" /\ deltaMs.val > 0
LastWrite(w) == w.pendingWrites[Len(w.pendingWrites)]

\* C11: a valid addFocusedMilliseconds(deltaMs) raises today's bucket by
\* exactly deltaMs (absent = 0), leaves the other days alone, and hands the
\* already updated mapping to the write, so a read before the write completes
\* sees the new value; no bucket ever decreases.
C11_AdditionAccumulates ==
  /\ [](\A deltaMs \in DeltaInputs :
          ValidDelta(deltaMs) =>
            LET w == addFocusedMilliseconds(World, deltaMs)
            IN  /\ getTodayMilliseconds(w) = BucketOf(stats, today) + deltaMs.val
                /\ \A d \in Days \ {today} : BucketOf(w.stats, d) = BucketOf(stats, d)
                /\ Len(w.pendingWrites) = Len(pendingWrites) + 1
                /\ LastWrite(w).entries = w.stats)
  /\ [](pendingWrites # <<>> => LastWrite(World).entries = stats)
  /\ [][\A d \in Days : BucketOf(stats', d) >= BucketOf(stats, d)]_vars

\* C11 witness: two additions on the same day, both writes still in flight,
\* and the bucket already holds their sum.
C11_TwoAdditionsOneBucket ==
  /\ lastOp = "add"
  /\ persisted = Undefined
  /\ Len(pendingWrites) = 2
  /\ DOMAIN pendingWrites[1].entries = {today}
  /\ pendingWrites[1].entries[today] < pendingWrites[2].entries[today]
  /\ getTodayMilliseconds(World) = pendingWrites[2].entries[today]

\* C12: addFocusedMilliseconds(deltaMs) with deltaMs non-finite or <= 0
\* changes neither the mapping nor the writes in flight.
C12_InvalidDeltaIsNoOp ==
  \A deltaMs \in DeltaInputs :
    ~ValidDelta(deltaMs) => addFocusedMilliseconds(World, deltaMs) = World

\* C12 witness: an invalid addition was made to a store that holds a bucket.
C12_InvalidDeltaIgnored ==
  /\ lastOp = "addIgnored"
  /\ getTodayMilliseconds(World) > 0
  /\ pendingWrites = <<>>

\* C14: a stored value that is absent or is not a mapping loads as the empty
\* mapping, and getTodayMilliseconds returns 0.
C14_MalformedLoadsEmpty ==
  (lastOp = "init" /\ persisted.type # "object") =>
    /\ statsKind = "object"
    /\ stats = EmptyStats
    /\ getTodayMilliseconds(World) = 0

\* C13: a failed write does not roll back the statistics (every bucket of the
\* failed write is still in memory), does not change the timer state, and
\* is only logged; a successful write is followed by the notification.
C13_FailedWriteOnlyLogged ==
  [][/\ WriteFails =>
          /\ stats' = stats
          /\ \A d \in DOMAIN Head(pendingWrites).entries :
               BucketOf(stats', d) >= Head(pendingWrites).entries[d]
          /\ UNCHANGED <<timerVars, statusBarItem>>
          /\ lastMessage' = "logSaveFailed"
     /\ WriteSucceeds =>
          /\ UNCHANGED <<stats, timerVars, statusBarItem>>
          /\ lastMessage' = "infoFinished"]_vars

\* C13 witness: the write of a finished session failed; the bucket is in
\* memory and nothing is stored.
C13_WriteFailedAfterFinish ==
  /\ lastOp = "finish"
  /\ lastMessage = "logSaveFailed"
  /\ getTodayMilliseconds(World) > 0
  /\ persisted = Undefined
  /\ Idle

\* C15: togglePauseOrResume while Idle with remainingMs = 0 changes nothing
\* and shows the informational message.
C15_ToggleWhileIdleIsNoOp ==
  Idle => togglePauseOrResume(Entry) = [Entry EXCEPT !.message = "infoNotStarted"]

\* C15 witness: the toggle was called after a session had run to completion.
C15_ToggledAfterFinish ==
  /\ lastOp = "toggleIdle"
  /\ lastMessage = "infoNotStarted"
  /\ Idle
  /\ \E d \in Days : BucketOf(stats, d) > 0

TimerState(w) == <<w.armed, w.timer, w.remainingMs, w.running, w.lastTickTime>>

\* C16: dispose leaves no periodic callback armed; a second dispose changes
\* nothing, and a dispose when nothing is armed changes no timer state.
C16_DisposeIsIdempotent ==
  LET once == dispose(Entry)
  IN  /\ once.armed = {}
      /\ once.timer = NullTimer
      /\ dispose(once) = once
      /\ armed = {} => TimerState(once) = TimerState(Entry)

\* C18: at most one periodic callback is armed, it is the one this._timer
\* holds, and after an accepted start exactly one is armed and remainingMs
\* is that of the latest start.
C18_AtMostOneCallback ==
  /\ Cardinality(armed) <= 1
  /\ armed = (IF timer = NullTimer THEN {} ELSE {timer})
  /\ lastOp \in {"start", "startOver"} =>
       (Cardinality(armed) = 1 /\ remainingMs = requestedMs)

\* C18 witness: some time after activation a session in progress or paused
\* was superseded by a one-minute one.
C18_SupersededByShorter ==
  /\ lastOp = "startOver"
  /\ lastTickTime > StartClock
  /\ remainingMs = minutesToMilliseconds(Finite(1))
  /\ armed = {timer}

\* C19: the finish step leaves the timer Idle with the callback cancelled,
\* and from Idle no tick, toggle, stop or dispose adds to the statistics or
\* leaves Idle: only a new accepted start can lead to another addition.
C19_CreditedAtMostOnce ==
  /\ lastOp = "finish" => (Idle /\ timer = NullTimer /\ armed = {})
  /\ Idle =>
       \A w \in {onTick(Entry, drift) : drift \in FinishDrift}
                  \cup {togglePauseOrResume(Entry), dispose(Entry)}
                  \cup {stopSession(Entry, b) : b \in BOOLEAN} :
         /\ ~w.running
         /\ w.remainingMs = 0
         /\ w.stats = stats
         /\ w.pendingWrites = pendingWrites

\* C19 witness: a session was credited once, and the timer was stopped
\* afterwards.
C19_StoppedAfterFinish ==
  /\ lastOp = "stop"
  /\ Idle
  /\ \E d \in Days : BucketOf(stats, d) \in {TICK_INTERVAL_MS, TICK_INTERVAL_MS + 1}
  /\ Cardinality(DOMAIN stats) = 1

\* C17: formatDuration(ms), with negative ms treated as 0, totalSeconds =
\* floor(ms / 1000), M = floor(totalSeconds / 60) and S = totalSeconds mod 60,
\* renders zero seconds when M = 0 and S = 0, the seconds S alone when M = 0,
\* the minutes M alone when S = 0, and otherwise the minutes M followed by the
\* seconds S; so 0 gives "0 sec", 45000 gives "45 sec", 60000 gives "1 min" and
\* 125000 gives "2 min 5 sec".
C17_FormatTable ==
  lastOp = "format" =>
    LET ms == Max0(remainingMs)
        shown == statusBarItem.text.duration
        M == CHOOSE m \in 0..(MaxFormatSeconds + 1) :
               m * 60000 <= ms /\ ms < (m + 1) * 60000
        S == CHOOSE x \in 0..59 :
               M * 60000 + x * 1000 <= ms /\ ms < M * 60000 + (x + 1) * 1000
    IN  /\ (M = 0 /\ S = 0) => shown = [form |-> "0 sec", minutes |-> 0, seconds |-> 0]
        /\ (M = 0 /\ S > 0) => shown = [form |-> "S sec", minutes |-> 0, seconds |-> S]
        /\ (M > 0 /\ S = 0) => shown = [form |-> "M min", minutes |-> M, seconds |-> 0]
        /\ (M > 0 /\ S > 0) => shown = [form |-> "M min S sec", minutes |-> M, seconds |-> S]
        /\ remainingMs = 0 => shown.form = "0 sec"
        /\ remainingMs = 45000 => shown = [form |-> "S sec", minutes |-> 0, seconds |-> 45]
        /\ remainingMs = 60000 => shown = [form |-> "M min", minutes |-> 1, seconds |-> 0]
        /\ remainingMs = 125000 =>
             shown = [form |-> "M min S sec", minutes |-> 2, seconds |-> 5]

\* C17 witness: 125000 ms was rendered as 2 minutes 5 seconds.
C17_TwoMinutesFiveSeconds ==
  /\ lastOp = "format"
  /\ remainingMs = 125000
  /\ statusBarItem.text.duration = [form |-> "M min S sec", minutes |-> 2, seconds |-> 5]

\* The finish step has just run: Idle, the callback cancelled, and the credit
\* handed to addFocusedMilliseconds (a bucket filled and a write issued).
C20_Finished ==
  /\ lastOp = "finish"
  /\ Idle
  /\ timer = NullTimer
  /\ armed = {}
  /\ BucketOf(stats, today) > 0
  /\ pendingWrites # <<>>

\* C20: liveness.  If a session is Running with its periodic tick armed and
\* from then on no start, pause, stop or dispose command is issued, the tick
\* keeps being delivered and the clock keeps advancing, then the session
\* eventually finishes: remainingMs reaches 0, the timer is Idle with the
\* callback cancelled, and addFocusedMilliseconds has been invoked.
C20_RunningEventuallyFinishes ==
  (running /\ timer \in armed /\ clock > LastCommandAt) ~> C20_Finished

\* C20 witness: a session that was Running after the last command has
\* finished.
C20_FinishedAfterLastCommand ==
  /\ C20_Finished
  /\ clock > LastCommandAt + 30 * TICK_INTERVAL_MS
  /\ requestedMs = 60000

====
